---- MODULE Spec2Model ----
(***************************************************************************)
(* Model of woj::bitset<BlockType, Size> and woj::dynamic_bitset<BlockType> *)
(* (src/C++/BitSet.hpp).                                                    *)
(*                                                                          *)
(* A block is modelled as the set of bit offsets (0 .. W-1) that are set in *)
(* it, so that 64-bit blocks are representable; bit i of a block b is       *)
(* (b >> i) & 1, i.e. i \in b.  Block arrays are sequences of blocks        *)
(* (C++ index k is sequence index k+1).  A heap pointer is a record         *)
(* [null, arr]; arr has the length of the allocation it points to.          *)
(* size_t arithmetic wraps modulo 2^SizeBits.                               *)
(***************************************************************************)
EXTENDS Integers, Sequences, FiniteSets, TLC

VARIABLES
    variant,         \* "fixed" (bitset) or "dynamic" (dynamic_bitset)
    m_block_size,    \* bits per block, sizeof(BlockType) * 8
    m_size,          \* Size / m_size: number of bits
    m_storage_size,  \* number of blocks
    m_partial_size,  \* bits used in the last, partial block
    m_data,          \* block array: [null |-> BOOLEAN, arr |-> Seq(block)]
    other,           \* second operand of a binary operation (same shape as Snap)
    result,          \* value returned by the last observer call
    ub,              \* undefined behaviour executed by the last call
    last,            \* the last call: its name and arguments
    calls            \* number of calls made on the object since its construction

vars == <<variant, m_block_size, m_size, m_storage_size, m_partial_size,
          m_data, other, result, ub, last, calls>>

----------------------------------------------------------------------------
\* Bounds of the model

\* largest bit count of a dynamic_bitset that bit-level growth may produce
MaxSize == 9
\* largest number of blocks that block-level growth may produce
MaxStorage == 3
\* width of size_t in the model (wraps modulo 2^SizeBits)
SizeBits == 16
\* number of calls made on one object after its construction
MaxCalls == 3

----------------------------------------------------------------------------
\* Integer helpers

RECURSIVE Pow2(_)
Pow2(n) == IF n = 0 THEN 1 ELSE 2 * Pow2(n - 1)

Min(a, b) == IF a < b THEN a ELSE b

\* size_t: unsigned, wraps
SizeMod == Pow2(SizeBits)
SIZE_MAX == SizeMod - 1
SizeT(x) == x % SizeMod

\* uint8_t (type of dynamic_bitset::m_partial_size): wraps modulo 256
UInt8(x) == x % 256

\* !!x of C++
Bool01(x) == IF x # 0 THEN 1 ELSE 0

----------------------------------------------------------------------------
\* Blocks

\* sizeof(BlockType)
SizeOf == m_block_size \div 8
Offsets == 0 .. (m_block_size - 1)
\* std::numeric_limits<BlockType>::max() and BlockType{0}
AllSet == Offsets
AllClear == {}

\* Width of the type a shift "BlockType{1} << k" or "1 << k" is computed in:
\* operands narrower than int are promoted to int (32 bits).
IntBits == 32
OperandBits == IF m_block_size < IntBits THEN IntBits ELSE m_block_size

\* BlockType{1} << k, converted back to BlockType: the set of results a build
\* can produce.  For 0 <= k < OperandBits the shift is defined (bits at or
\* above W are lost in the conversion).  Otherwise the shift is undefined:
\* the hardware either masks the count to the operand width or yields 0.
Shl1(k) ==
    IF k >= 0 /\ k < m_block_size THEN {{k}}
    ELSE IF k >= 0 /\ k < OperandBits THEN {{}}
    ELSE {{}, (IF (k % OperandBits) < m_block_size THEN {k % OperandBits} ELSE {})}

ShlUndefined(k) == k < 0 \/ k >= OperandBits

\* contents of storage that was allocated but never written: one of the
\* patterns the allocator can hand out
Indeterminate == {AllClear, AllSet}

\* new BlockType[n] with every block holding g
NewArray(n, g) == [k \in 1..n |-> g]

NullPtr == [null |-> TRUE, arr |-> <<>>]
Ptr(a) == [null |-> FALSE, arr |-> a]

\* the state of one bitset object
Snap == [size |-> m_size, storage |-> m_storage_size,
         partial |-> m_partial_size, data |-> m_data]

NoSnap == [size |-> 0, storage |-> 0, partial |-> 0, data |-> NullPtr]

\* kinds of undefined behaviour after which the process does not continue
Fatal == {"null_deref", "oob_write", "bad_alloc", "double_free", "use_after_free"}
Running == ub \cap Fatal = {}

----------------------------------------------------------------------------
\* Single-bit primitives (bitset::test / set, dynamic_bitset::test / set)

\* is C++ index i inside the allocation p points to
InArray(p, i) == ~p.null /\ i >= 0 /\ i < Len(p.arr)

test_bit(p, index) == (index % m_block_size) \in p.arr[(index \div m_block_size) + 1]

test(index) == test_bit(m_data, index)

\* array after set(index, value)
set_bit(a, index, value) ==
    [a EXCEPT ![(index \div m_block_size) + 1] =
        IF value THEN @ \cup {index % m_block_size} ELSE @ \ {index % m_block_size}]

\* array after "a[blk] |= mask" (value) or "a[blk] &= ~mask" (~value)
apply_mask(a, blk, mask, value) ==
    [a EXCEPT ![blk + 1] = IF value THEN @ \cup mask ELSE @ \ mask]

\* ::memset(base + start, value ? 255 : 0, nbytes) on array a: byte j of a
\* block holds the bits 8j .. 8j+7 (little endian); only the part inside the
\* array is applied
memset(a, start, value, nbytes) ==
    [k \in 1..Len(a) |->
        LET hit == { o \in Offsets :
                       LET n == (k - 1 - start) * SizeOf + (o \div 8)
                       IN  n >= 0 /\ n < nbytes }
        IN  IF value THEN a[k] \cup hit ELSE a[k] \ hit]

\* does that memset write outside an array of len blocks
memset_oob(len, start, nbytes) ==
    nbytes > 0 /\ start * SizeOf + nbytes > len * SizeOf

\* std::copy(src, src + n, dst): dst with its first n blocks overwritten;
\* blocks read past the end of src are indeterminate (g)
copy_blocks(src, n, dst, g) ==
    [k \in 1..Len(dst) |->
        IF k <= n THEN (IF k <= Len(src) THEN src[k] ELSE g) ELSE dst[k]]

----------------------------------------------------------------------------
\* dynamic_bitset: construction

\* new BlockType[n] throws (std::bad_array_new_length / std::bad_alloc) when
\* the request exceeds what any heap can hold
AllocLimit == SizeMod \div 2
AllocFails(n) == n > AllocLimit

\* outcome of one call: the object's fields afterwards and the undefined
\* behaviour the call executed
Outcome(sz, st, pa, da, u) ==
    [size |-> sz, storage |-> st, partial |-> pa, data |-> da, ub |-> u]

\* dynamic_bitset()
dynamic_bitset_empty == Outcome(0, 0, 0, NullPtr, {})

\* dynamic_bitset(size) followed by clear(), dynamic_bitset(size, val)
\* followed by fill(val): the members are initialised in declaration order
dynamic_bitset_fill(size, val) ==
    LET partial == UInt8(size % m_block_size)
        storage == size \div m_block_size + Bool01(partial)
    IN  Outcome(size, storage, partial,
                Ptr(NewArray(storage, IF val THEN AllSet ELSE AllClear)), {})

----------------------------------------------------------------------------
\* dynamic_bitset: capacity operations.  Each operator maps the state s the
\* call starts from to the set of outcomes the call can have.

push_back(s, value) ==
    LET grow == (s.size % m_block_size) = 0
        size1 == SizeT(s.size + 1)
        partial1 == IF grow THEN 0 ELSE UInt8(s.partial + 1)
        storage1 == IF grow THEN SizeT(s.storage + 1) ELSE s.storage
        idx == SizeT(storage1 - 1)
        k == partial1 - 1
    IN  IF grow /\ AllocFails(storage1)
        THEN {Outcome(size1, storage1, partial1, s.data, {"bad_alloc"})}
        ELSE
        { LET new0 == NewArray(storage1, g)
              \* std::copy(m_data, m_data + m_storage_size, new_data) with
              \* the already incremented m_storage_size
              copied == IF s.data.null THEN new0
                        ELSE copy_blocks(s.data.arr, storage1, new0, g)
              ub_copy == IF grow /\ ~s.data.null /\ storage1 > Len(s.data.arr)
                         THEN {"oob_read"} ELSE {}
              new1 == IF storage1 >= 1 THEN [copied EXCEPT ![storage1] = AllClear]
                      ELSE copied
              data1 == IF grow THEN Ptr(new1) ELSE s.data
              ub_shift == IF ShlUndefined(k) THEN {"shift"} ELSE {}
              ubs == IF grow THEN ub_copy \cup ub_shift ELSE ub_shift
          IN  IF data1.null
              THEN Outcome(size1, storage1, partial1, data1, ubs \cup {"null_deref"})
              ELSE IF ~InArray(data1, idx)
              THEN Outcome(size1, storage1, partial1, data1, ubs \cup {"oob_write"})
              ELSE Outcome(size1, storage1, partial1,
                           Ptr(apply_mask(data1.arr, idx, mask, value)), ubs)
          : g \in Indeterminate, mask \in Shl1(k) }

pop_back(s) ==
    LET size1 == SizeT(s.size - 1)
    IN  IF size1 % m_block_size = 0
        THEN LET storage1 == SizeT(s.storage - 1)
             IN  IF size1 # 0
                 THEN IF AllocFails(storage1)
                      THEN {Outcome(size1, storage1, 0, s.data, {"bad_alloc"})}
                      ELSE IF s.data.null /\ storage1 > 0
                      THEN {Outcome(size1, storage1, 0, s.data, {"null_deref"})}
                      ELSE { Outcome(SizeT(size1 - 1), storage1, 0,
                                     Ptr(copy_blocks(IF s.data.null THEN <<>> ELSE s.data.arr,
                                                     storage1, NewArray(storage1, g), g)),
                                     IF ~s.data.null /\ storage1 > Len(s.data.arr)
                                     THEN {"oob_read"} ELSE {})
                             : g \in Indeterminate }
                 ELSE {Outcome(SizeT(size1 - 1), storage1, 0, NullPtr, {})}
        ELSE {Outcome(size1, s.storage, UInt8(s.partial - 1), s.data, {})}

\* the copy constructor dynamic_bitset(const dynamic_bitset&) and
\* _from_other(const dynamic_bitset&): a fresh array of other.m_storage_size
\* blocks holding other's blocks
copy_of(s, g) ==
    IF s.data.null THEN NewArray(s.storage, g)
    ELSE copy_blocks(s.data.arr, s.storage, NewArray(s.storage, g), g)

insert(s, index, value) ==
    IF index = s.size THEN push_back(s, value)
    ELSE IF (s.size % m_block_size) = 0
    THEN LET storage1 == SizeT(s.storage + 1)
             size1 == SizeT(s.size + 1)
         IN  IF AllocFails(storage1)
             THEN {Outcome(s.size, storage1, 0, s.data, {"bad_alloc"})}
             ELSE IF s.data.null
             THEN { Outcome(size1, storage1, 0, Ptr(NewArray(storage1, g)), {})
                    : g \in Indeterminate }
             ELSE IF ~InArray(s.data, (s.size - 1) \div m_block_size)
             THEN {Outcome(s.size, storage1, 0, s.data, {"oob_read"})}
             ELSE { LET new0 == NewArray(storage1, g)
                        \* bits below index keep their place, bits from
                        \* index on move up by one, bit index is set last
                        new1 == [b \in 1..storage1 |->
                                   { o \in Offsets :
                                       LET j == (b - 1) * m_block_size + o
                                       IN  IF j < index THEN test_bit(s.data, j)
                                           ELSE IF j = index THEN value
                                           ELSE IF j <= s.size THEN test_bit(s.data, j - 1)
                                           ELSE o \in new0[b] }]
                    IN  Outcome(size1, storage1, 0, Ptr(new1), {})
                    : g \in Indeterminate }
    ELSE LET size1 == SizeT(s.size + 1)
             partial1 == UInt8(s.partial + 1)
             tmp_ok == (s.size - 1) \div m_block_size < s.storage
             ub_tmp == IF tmp_ok THEN {} ELSE {"oob_read"}
         IN  IF s.data.null
             THEN {Outcome(s.size, s.storage, s.partial, s.data, ub_tmp \cup {"null_deref"})}
             ELSE IF ~InArray(s.data, s.size \div m_block_size)
             THEN {Outcome(s.size, s.storage, s.partial, s.data, ub_tmp \cup {"oob_write"})}
             ELSE { LET tmp_copy == Ptr(copy_of(s, g))
                        tmp_test(i) == IF InArray(tmp_copy, i \div m_block_size)
                                       THEN test_bit(tmp_copy, i) ELSE AllSet = g
                        new1 == [b \in 1..Len(s.data.arr) |->
                                   { o \in Offsets :
                                       LET j == (b - 1) * m_block_size + o
                                       IN  IF j = index THEN value
                                           ELSE IF j > index /\ j <= s.size THEN tmp_test(j - 1)
                                           ELSE o \in s.data.arr[b] }]
                    IN  Outcome(size1, s.storage, partial1, Ptr(new1), ub_tmp)
                    : g \in Indeterminate }

resize(s, new_size) ==
    IF new_size = s.size THEN {Outcome(s.size, s.storage, s.partial, s.data, {})}
    ELSE IF new_size = 0 THEN {Outcome(0, 0, 0, NullPtr, {})}
    ELSE IF AllocFails(new_size)
    THEN {Outcome(s.size, s.storage, s.partial, s.data, {"bad_alloc"})}
    ELSE
    { LET \* new BlockType[new_size]: new_size blocks
          new0 == NewArray(new_size, g)
          new1 == IF s.data.null THEN new0
                  ELSE IF s.storage < new_size
                  THEN memset(copy_blocks(s.data.arr, s.storage, new0, g),
                              s.storage, FALSE, (new_size - s.storage) * SizeOf)
                  ELSE copy_blocks(s.data.arr, new_size, new0, g)
          ncopy == IF s.storage < new_size THEN s.storage ELSE new_size
          u == IF ~s.data.null /\ ncopy > Len(s.data.arr) THEN {"oob_read"} ELSE {}
          partial1 == UInt8(new_size % m_block_size)
          storage1 == new_size \div m_block_size + Bool01(partial1)
      IN  Outcome(new_size, storage1, partial1, Ptr(new1), u)
      : g \in Indeterminate }

\* push_back_block(block) without the copy of the old blocks into the new
\* array
push_back_block_uncopied(s, block) ==
    LET storage1 == SizeT(s.storage + 1)
        size1 == SizeT(storage1 * m_block_size)
    IN  IF AllocFails(storage1)
        THEN {Outcome(size1, storage1, 0, s.data, {"bad_alloc"})}
        ELSE
        { LET new0 == NewArray(storage1, g)
          IN  IF storage1 = 0
              THEN Outcome(size1, storage1, 0, Ptr(new0), {"oob_write"})
              ELSE Outcome(size1, storage1, 0, Ptr([new0 EXCEPT ![storage1] = block]), {})
          : g \in Indeterminate }

push_back_block(s, block) ==
    LET storage1 == SizeT(s.storage + 1)
        size1 == SizeT(storage1 * m_block_size)
    IN  IF AllocFails(storage1)
        THEN {Outcome(size1, storage1, 0, s.data, {"bad_alloc"})}
        ELSE
        { LET new0 == NewArray(storage1, g)
              new1 == IF s.data.null THEN new0
                      ELSE copy_blocks(s.data.arr, storage1, new0, g)
              u == IF ~s.data.null /\ storage1 > Len(s.data.arr)
                   THEN {"oob_read"} ELSE {}
          IN  IF storage1 = 0
              THEN Outcome(size1, storage1, 0, Ptr(new1), u \cup {"oob_write"})
              ELSE Outcome(size1, storage1, 0, Ptr([new1 EXCEPT ![storage1] = block]), u)
          : g \in Indeterminate }

pop_back_block(s) ==
    LET storage1 == SizeT(s.storage - 1)
        size1 == SizeT(storage1 * m_block_size)
    IN  IF AllocFails(storage1)
        THEN {Outcome(size1, storage1, 0, s.data, {"bad_alloc"})}
        ELSE
        { LET new0 == NewArray(storage1, g)
              new1 == IF s.data.null THEN new0
                      ELSE copy_blocks(s.data.arr, storage1, new0, g)
              u == IF ~s.data.null /\ storage1 > Len(s.data.arr)
                   THEN {"oob_read"} ELSE {}
          IN  Outcome(size1, storage1, 0, Ptr(new1), u)
          : g \in Indeterminate }

\* insert_block(index, block) with the blocks from index on copied to their
\* old position instead of one position up
insert_block_unshifted(s, index, block) ==
    IF index = s.storage THEN push_back_block(s, block)
    ELSE LET storage1 == SizeT(s.storage + 1)
             size1 == SizeT(s.size + m_block_size)
         IN  IF AllocFails(storage1)
             THEN {Outcome(s.size, s.storage, s.partial, s.data, {"bad_alloc"})}
             ELSE
             { LET new0 == NewArray(storage1, g)
                   old(k) == IF k <= Len(s.data.arr) THEN s.data.arr[k] ELSE g
                   new1 == IF s.data.null THEN new0
                           ELSE [k \in 1..storage1 |->
                                   IF k <= s.storage THEN old(k) ELSE new0[k]]
               IN  Outcome(size1, storage1, s.partial,
                           Ptr([new1 EXCEPT ![index + 1] = block]), {})
               : g \in Indeterminate }

insert_block(s, index, block) ==
    IF index = s.storage THEN push_back_block(s, block)
    ELSE LET storage1 == SizeT(s.storage + 1)
             size1 == SizeT(s.size + m_block_size)
         IN  IF AllocFails(storage1)
             THEN {Outcome(s.size, s.storage, s.partial, s.data, {"bad_alloc"})}
             ELSE
             { LET new0 == NewArray(storage1, g)
                   old(k) == IF k <= Len(s.data.arr) THEN s.data.arr[k] ELSE g
                   new1 == IF s.data.null THEN new0
                           ELSE [k \in 1..storage1 |->
                                   IF k <= index THEN old(k)
                                   ELSE IF k = index + 1 THEN new0[k]
                                   ELSE old(k - 1)]
                   u == IF ~s.data.null /\ s.storage > Len(s.data.arr)
                        THEN {"oob_read"} ELSE {}
               IN  Outcome(size1, storage1, s.partial,
                           Ptr([new1 EXCEPT ![index + 1] = block]), u)
               : g \in Indeterminate }

----------------------------------------------------------------------------
\* The dynamic_bitset<uint8_t> state machine: one object, constructed and
\* then driven through its capacity operations.

\* block values handed to push_back_block / insert_block
BlockValues == {AllClear, AllSet, {0, 3}}

Call(name, a, b, v, blk) ==
    [op |-> name, a |-> a, b |-> b, v |-> v, blk |-> blk]

\* the object takes the outcome o of the call c
Takes(o, c) ==
    /\ m_size' = o.size
    /\ m_storage_size' = o.storage
    /\ m_partial_size' = o.partial
    /\ m_data' = o.data
    /\ ub' = o.ub
    /\ last' = c
    /\ calls' = calls + 1
    /\ UNCHANGED <<variant, m_block_size>>

Becomes(o, c) == Takes(o, c) /\ UNCHANGED <<other, result>>

\* the object starts as the outcome o of a constructor
Holds(o) ==
    /\ m_size = o.size
    /\ m_storage_size = o.storage
    /\ m_partial_size = o.partial
    /\ m_data = o.data
    /\ ub = o.ub
    /\ calls = 0

\* a dynamic_bitset<uint8_t>
Constructed(o) ==
    /\ variant = "dynamic"
    /\ m_block_size = 8
    /\ Holds(o)
    /\ other = NoSnap
    /\ result = <<>>

Init ==
    \/ /\ Constructed(dynamic_bitset_empty)
       /\ last = Call("dynamic_bitset", 0, 0, FALSE, {})
    \/ \E size \in 0..MaxSize, val \in BOOLEAN :
         /\ Constructed(dynamic_bitset_fill(size, val))
         /\ last = Call("dynamic_bitset", size, 1, val, {})

PushBack ==
    /\ variant = "dynamic"
    /\ Running
    /\ calls < MaxCalls
    /\ SizeT(m_size + 1) <= MaxSize
    /\ \E value \in BOOLEAN : \E o \in push_back(Snap, value) :
         Becomes(o, Call("push_back", 0, 0, value, {}))

PopBack ==
    /\ variant = "dynamic"
    /\ Running
    /\ calls < MaxCalls
    /\ m_size >= 1
    /\ \E o \in pop_back(Snap) : Becomes(o, Call("pop_back", 0, 0, FALSE, {}))

Insert ==
    /\ Running
    /\ calls < MaxCalls
    /\ SizeT(m_size + 1) <= MaxSize
    /\ \E index \in 0..Min(m_size, MaxSize), value \in BOOLEAN :
         \E o \in insert(Snap, index, value) :
           Becomes(o, Call("insert", index, 0, value, {}))

Resize ==
    /\ Running
    /\ calls < MaxCalls
    /\ \E new_size \in 0..MaxSize : \E o \in resize(Snap, new_size) :
         Becomes(o, Call("resize", new_size, 0, FALSE, {}))

PushBackBlock ==
    /\ Running
    /\ calls < MaxCalls
    /\ SizeT(m_storage_size + 1) <= MaxStorage
    /\ \E block \in BlockValues : \E o \in push_back_block(Snap, block) :
         Becomes(o, Call("push_back_block", 0, 0, FALSE, block))

PopBackBlock ==
    /\ Running
    /\ calls < MaxCalls
    /\ m_storage_size >= 1
    /\ \E o \in pop_back_block(Snap) :
         Becomes(o, Call("pop_back_block", 0, 0, FALSE, {}))

InsertBlock ==
    /\ Running
    /\ calls < MaxCalls
    /\ SizeT(m_storage_size + 1) <= MaxStorage
    /\ \E index \in 0..m_storage_size, block \in BlockValues :
         \E o \in insert_block(Snap, index, block) :
           Becomes(o, Call("insert_block", index, 0, FALSE, block))

Next ==
    \/ PushBack
    \/ PopBack
    \/ Insert
    \/ Resize
    \/ PushBackBlock
    \/ PopBackBlock
    \/ InsertBlock

Spec == Init /\ [][Next]_vars

----------------------------------------------------------------------------
\* Reading a bit of an object state s the way a caller does with test(i);
\* FALSE stands for "no such bit" when the block is not inside the storage.
Bit(s, i) == InArray(s.data, i \div m_block_size) /\ test_bit(s.data, i)

\* block k (C++ index) of s, AllClear when there is no such block
BlockAt(s, k) == IF InArray(s.data, k) THEN s.data.arr[k + 1] ELSE AllClear

\* ceil(n / W)
CeilBlocks(n) == n \div m_block_size + Bool01(n % m_block_size)

----------------------------------------------------------------------------
\* C2: in every reachable state of a dynamic_bitset the fields are mutually
\* consistent: m_storage_size == m_size / W + (m_size % W != 0) and
\* m_partial_size == m_size % W.
C2_FieldsConsistent ==
    variant = "dynamic" =>
        /\ m_storage_size = m_size \div m_block_size + Bool01(m_size % m_block_size)
        /\ m_partial_size = m_size % m_block_size

\* C3: push_back(v) on a bitset of size n leaves size n + 1, test(n) == v
\* and test(i) unchanged for every i < n.
C3_PushBackAppends ==
    [][ last'.op = "push_back" =>
          /\ m_size' = m_size + 1
          /\ Bit(Snap', m_size) = last'.v
          /\ \A i \in 0..(m_size - 1) : Bit(Snap', i) = Bit(Snap, i) ]_vars

\* C5: pop_back() on a bitset of size n >= 1 decrements size by exactly 1; if
\* the new size is a multiple of W the storage shrinks by exactly one block
\* (freed when the new size is 0) and partial_size becomes 0, otherwise the
\* storage is unchanged and partial_size becomes (n - 1) % W.
C5_PopBackShrinks ==
    [][ last'.op = "pop_back" =>
          /\ m_size' = m_size - 1
          /\ IF (m_size - 1) % m_block_size = 0
             THEN /\ m_storage_size' = m_storage_size - 1
                  /\ m_partial_size' = 0
                  /\ (m_size - 1 = 0 => m_data'.null)
             ELSE /\ m_storage_size' = m_storage_size
                  /\ m_data' = m_data
                  /\ m_partial_size' = (m_size - 1) % m_block_size ]_vars

\* C6: insert(index, value) with index < size on a bitset of size n yields
\* size n + 1, bits below index unchanged, bit index == value, every old bit
\* i in [index, n) at i + 1, and storage grown by one block only when the old
\* last block was fully utilized.
C6_InsertShifts ==
    [][ (last'.op = "insert" /\ last'.a < m_size) =>
          /\ ub' \cap Fatal = {}
          /\ m_size' = m_size + 1
          /\ \A i \in 0..(Min(m_size, MaxSize) - 1) :
               IF i < last'.a THEN Bit(Snap', i) = Bit(Snap, i)
               ELSE Bit(Snap', i + 1) = Bit(Snap, i)
          /\ Bit(Snap', last'.a) = last'.v
          /\ m_storage_size' = m_storage_size
                               + (IF m_size % m_block_size = 0 THEN 1 ELSE 0) ]_vars

\* C7: resize(new_size) with new_size != size and new_size != 0 allocates a
\* block array of ceil(new_size / W) blocks, preserves the first
\* min(old_storage_size, new_storage_size) blocks, and when growing leaves
\* every newly added whole block equal to zero.
C7_ResizeReallocates ==
    [][ (last'.op = "resize" /\ last'.a # m_size /\ last'.a # 0) =>
          /\ ~m_data'.null
          /\ Len(m_data'.arr) = CeilBlocks(last'.a)
          /\ \A k \in 0..(Min(m_storage_size, CeilBlocks(last'.a)) - 1) :
               BlockAt(Snap', k) = BlockAt(Snap, k)
          /\ \A k \in m_storage_size..(CeilBlocks(last'.a) - 1) :
               BlockAt(Snap', k) = AllClear ]_vars

----------------------------------------------------------------------------
\* push_back N times, then pop_back N times, on a dynamic_bitset<uint8_t>
\* constructed with a known pattern.  other keeps the object as constructed,
\* result counts the calls of each kind.

MaxPushes == 3

PPInit ==
    \E size \in 0..MaxSize, val \in BOOLEAN :
      /\ variant = "dynamic"
      /\ m_block_size = 8
      /\ Holds(dynamic_bitset_fill(size, val))
      /\ other = [size |-> m_size, storage |-> m_storage_size,
                  partial |-> m_partial_size, data |-> m_data]
      /\ result = [pushed |-> 0, popped |-> 0]
      /\ last = Call("dynamic_bitset", size, 1, val, {})

PPPush ==
    /\ Running
    /\ result.popped = 0
    /\ result.pushed < MaxPushes
    /\ \E value \in BOOLEAN : \E o \in push_back(Snap, value) :
         /\ Takes(o, Call("push_back", 0, 0, value, {}))
         /\ result' = [result EXCEPT !.pushed = @ + 1]
         /\ UNCHANGED other

PPPop ==
    /\ Running
    /\ result.popped < result.pushed
    /\ \E o \in pop_back(Snap) :
         /\ Takes(o, Call("pop_back", 0, 0, FALSE, {}))
         /\ result' = [result EXCEPT !.popped = @ + 1]
         /\ UNCHANGED other

PPNext ==
    \/ PPPush
    \/ PPPop

SpecPushPop == PPInit /\ [][PPNext]_vars

\* C4: after N push_back calls followed by N pop_back calls the bitset is
\* back at its original size n and test(i) has its original value for i < n.
C4_PushPopRestores ==
    (last.op = "pop_back" /\ result.popped = result.pushed) =>
        /\ m_size = other.size
        /\ \A i \in 0..(other.size - 1) : Bit(Snap, i) = Bit(other, i)

----------------------------------------------------------------------------
\* Operations shared by bitset<BlockType, Size> and dynamic_bitset<BlockType>
\* (the two classes carry the same code for them)

\* bitset(val) / dynamic_bitset(size, val): size bits, every byte of the
\* storage filled by fill(val)
filled(size, val) ==
    LET partial == size % m_block_size
        storage == size \div m_block_size + Bool01(partial)
    IN  Outcome(size, storage, partial,
                Ptr(NewArray(storage, IF val THEN AllSet ELSE AllClear)), {})

\* fill(pad) followed by set(i, bits[i]) for every i < size
with_bits(size, pad, bits) ==
    LET o == filled(size, pad)
    IN  [o EXCEPT !.data =
           Ptr([k \in 1..o.storage |->
                  { f \in Offsets :
                      LET i == (k - 1) * m_block_size + f
                      IN  IF i < size THEN bits[i + 1] ELSE pad }])]

\* the arguments of the ::memset call of fill_range / set_range /
\* clear_range (begin, end): the block it starts at and its byte count as
\* the expression yields it before the conversion to size_t
range_to_add(begin) == IF (begin % m_block_size) # 0 THEN 1 ELSE 0

range_to_sub(begin, end) ==
    IF (end % m_block_size) # 0
       /\ (begin \div m_block_size) # (end \div m_block_size)
    THEN 1 ELSE 0

memset_start(begin, end) == (begin \div m_block_size) + range_to_add(begin)

memset_count(begin, end) ==
    ((end - begin) \div m_block_size) * SizeOf - range_to_sub(begin, end)

\* fill_range(begin, end, value), run-time path
fill_range(s, begin, end, value) ==
    LET bb == begin \div m_block_size
        eb == end \div m_block_size
        head == (begin % m_block_size) # 0
        tail == (end % m_block_size) # 0 /\ bb # eb
        end_bit == IF bb = eb THEN end % m_block_size ELSE m_block_size
        head_mask == { i \in Offsets : i >= begin % m_block_size /\ i < end_bit }
        tail_mask == { i \in Offsets : i < end % m_block_size }
        a0 == s.data.arr
        a1 == IF head THEN apply_mask(a0, bb, head_mask, value) ELSE a0
        a2 == IF tail THEN apply_mask(a1, eb, tail_mask, value) ELSE a1
        nbytes == SizeT(memset_count(begin, end))
        a3 == memset(a2, memset_start(begin, end), value, nbytes)
        u == IF memset_oob(Len(a0), memset_start(begin, end), nbytes)
             THEN {"oob_write"} ELSE {}
    IN  Outcome(s.size, s.storage, s.partial, Ptr(a3), u)

----------------------------------------------------------------------------
\* fill_range applied once to a freshly filled bitset of either class

\* block widths of the range-fill check: uint8_t and uint16_t
FillBlockSizes == {8, 16}
\* largest bit count of the bitsets that are range-filled
MaxFillSize == 18

FillInit ==
    \E kind \in {"fixed", "dynamic"}, w \in FillBlockSizes,
       size \in 1..MaxFillSize, val \in BOOLEAN :
      /\ variant = kind
      /\ m_block_size = w
      /\ Holds(filled(size, val))
      /\ other = NoSnap
      /\ result = <<>>
      /\ last = Call(IF kind = "fixed" THEN "bitset" ELSE "dynamic_bitset",
                     size, 1, val, {})

FillRange ==
    /\ Running
    /\ calls = 0
    /\ \E begin \in 0..m_size, value \in BOOLEAN : \E end \in begin..m_size :
         Becomes(fill_range(Snap, begin, end, value),
                 Call("fill_range", begin, end, value, {}))

FillNext ==
    \/ FillRange

SpecFill == FillInit /\ [][FillNext]_vars

\* C1: for both variants and every 0 <= begin <= end <= size(), after
\* fill_range(begin, end, v) test(i) == v for every i in [begin, end) and
\* test(i) is unchanged for every i outside [begin, end).
C1_FillRange ==
    [][ last'.op = "fill_range" =>
          \A i \in 0..(m_size - 1) :
            Bit(Snap', i) = IF last'.a <= i /\ i < last'.b THEN last'.v
                            ELSE Bit(Snap, i) ]_vars

----------------------------------------------------------------------------
\* bitset<BlockType, Size>: string conversion

\* the character a std::basic_string(n, 0) is filled with
NulChar == "NUL"

\* all strings of length n over the characters of cs
Strings(n, cs) == [1..n -> cs]

\* _from_string(str, set_chr) on the array a: ORs in a bit for every
\* character equal to set_chr, stops at the end of the string
_from_string(s, a, str, set_chr) ==
    [k \in 1..Len(a) |->
        IF k > s.storage THEN a[k]
        ELSE a[k] \cup { j \in Offsets :
                          LET i == (k - 1) * m_block_size + j
                          IN  i < Len(str) /\ str[i + 1] = set_chr }]

\* from_string(str, set_chr): clear() and then _from_string
from_string(s, str, set_chr) ==
    Outcome(s.size, s.storage, s.partial,
            Ptr(_from_string(s, memset(s.data.arr, 0, FALSE, s.storage * SizeOf),
                             str, set_chr)), {})

\* bitset(str, set_chr): m_data{0} and then _from_string
bitset_from_string(size, str, set_chr) ==
    LET o == filled(size, FALSE)
    IN  Outcome(o.size, o.storage, o.partial,
                Ptr(_from_string(o, o.data.arr, str, set_chr)), {})

\* to_string(set_chr, rst_chr): the set of strings the call can return; a
\* block read outside the array is indeterminate
to_string(s, set_chr, rst_chr) ==
    LET full == s.storage - Bool01(s.partial)
        chr(blk, j) == IF j \in blk THEN set_chr ELSE rst_chr
    IN  { [n \in 1..(s.size + 1) |->
             LET i == (n - 1) \div m_block_size
                 j == (n - 1) % m_block_size
             IN  IF i < full THEN chr(s.data.arr[i + 1], j)
                 ELSE IF s.storage # 0 /\ i = s.storage - 1 /\ j < s.partial
                 \* result[(m_storage_size - 1) * m_block_size + j] is taken
                 \* from m_data[j]
                 THEN chr(IF InArray(s.data, j) THEN s.data.arr[j + 1] ELSE g, j)
                 ELSE NulChar]
          : g \in Indeterminate }

to_string_ub(s) == IF s.partial > s.storage THEN {"oob_read"} ELSE {}

\* (1 << m_partial_size) - 1 converted to BlockType: the masks a build can
\* produce.  The expression is computed in int.  Up to 30 the result is
\* 2^p - 1; at 31 the subtraction overflows int and wraps to INT_MAX; from 32
\* on the shift is undefined: the count is taken modulo 32, or the shift
\* yields 0 and the mask is -1.
eq_mask(p) ==
    LET low(n) == { o \in Offsets : o < n }
        wrapped(q) == IF q = IntBits - 1 THEN low(IntBits - 1) ELSE low(q)
    IN  IF p < IntBits THEN {wrapped(p)}
        ELSE {wrapped(p % IntBits), AllSet}

\* is (1 << p) - 1 undefined (shift count or int overflow)
eq_mask_ub(p) == IF p >= IntBits - 1 THEN {"shift"} ELSE {}

\* bitset::operator==(const bitset&): the set of results the call can have
operator_eq(s, o) ==
    LET m_full_storage_size == s.size \div m_block_size
        partial == s.size % m_block_size
        storage == m_full_storage_size + Bool01(partial)
    IN  IF \E i \in 1..m_full_storage_size : s.data.arr[i] # o.data.arr[i]
        THEN {FALSE}
        ELSE IF partial # 0
        THEN { (s.data.arr[storage] \cap mask) = (o.data.arr[storage] \cap mask)
               : mask \in eq_mask(partial) }
        ELSE {TRUE}

\* dynamic_bitset::operator==(const dynamic_bitset&)
dynamic_operator_eq(s, o) ==
    IF s.size # o.size THEN {FALSE}
    ELSE IF \E i \in 1..(s.storage - Bool01(s.partial)) :
              s.data.arr[i] # o.data.arr[i]
    THEN {FALSE}
    ELSE IF s.partial # 0
    THEN { (s.data.arr[s.storage] \cap mask) = (o.data.arr[s.storage] \cap mask)
           : mask \in eq_mask(s.partial) }
    ELSE {TRUE}

----------------------------------------------------------------------------
\* A bitset<uint8_t, Size> built from a string, converted with to_string and
\* read back with from_string into a second bitset of the same type

\* largest Size of the bitsets that are converted
MaxStrSize == 10

StrInit ==
    \E size \in 1..MaxStrSize : \E str \in Strings(size, {"1", "0"}) :
      /\ variant = "fixed"
      /\ m_block_size = 8
      /\ Holds(bitset_from_string(size, str, "1"))
      /\ other = NoSnap
      /\ result = <<>>
      /\ last = Call("bitset", size, 0, FALSE, str)

\* result = to_string(set_chr, rst_chr)
CallToString ==
    /\ Running
    /\ last.op = "bitset"
    /\ \E set_chr \in {"1", "x"} : \E str \in to_string(Snap, set_chr, "0") :
         /\ result' = str
         /\ ub' = to_string_ub(Snap)
         /\ last' = Call("to_string", 0, 0, FALSE, <<set_chr, "0">>)
         /\ calls' = calls + 1
         /\ UNCHANGED <<variant, m_block_size, m_size, m_storage_size,
                        m_partial_size, m_data, other>>

\* other.from_string(result, set_chr), other being a bitset of the same type
\* holding any earlier content
CallFromString ==
    /\ Running
    /\ last.op = "to_string"
    /\ \E val \in BOOLEAN :
         LET o == from_string(filled(m_size, val), result, last.blk[1])
         IN  /\ other' = [size |-> o.size, storage |-> o.storage,
                          partial |-> o.partial, data |-> o.data]
             /\ last' = Call("from_string", 0, 0, val, last.blk)
             /\ calls' = calls + 1
             /\ UNCHANGED <<variant, m_block_size, m_size, m_storage_size,
                            m_partial_size, m_data, result, ub>>

StrNext ==
    \/ CallToString
    \/ CallFromString

SpecString == StrInit /\ [][StrNext]_vars

\* C8: to_string(set_chr, clear_chr) returns a string of exactly size()
\* characters whose character i is set_chr if test(i) and clear_chr otherwise,
\* including the bits of a partial last block.
C8_ToString ==
    last.op = "to_string" =>
        /\ Len(result) = m_size
        /\ \A i \in 0..(m_size - 1) :
             result[i + 1] = IF Bit(Snap, i) THEN last.blk[1] ELSE last.blk[2]

\* C9: a bitset of the same type loaded with from_string(B.to_string())
\* compares equal to B.
C9_StringRoundTrip ==
    last.op = "from_string" => operator_eq(other, Snap) = {TRUE}

----------------------------------------------------------------------------
\* operator== on two bitsets of the same type and size.  Each operand is
\* built by fill(pad) followed by set(i, .) for every i < size; the second
\* operand differs from the first in at most one bit.

\* block widths the classes are instantiated with: uint8_t .. uint64_t
BlockSizes == {8, 16, 32, 64}
\* largest number of blocks of the compared bitsets
MaxEqBlocks == 2

\* bit i of the first operand
EqBits(size, u) == [i \in 1..size |-> u]
\* the same with bit d inverted (d = size: none)
EqFlipped(size, u, d) == [i \in 1..size |-> IF i = d + 1 THEN ~u ELSE u]
\* positions at which the operands may differ
EqFlips(size, w) ==
    {0, size \div 2, size - 1, ((size - 1) \div w) * w, size}

EqInit ==
    \E kind \in {"fixed", "dynamic"}, w \in BlockSizes :
    \E size \in 1..(MaxEqBlocks * w), u \in BOOLEAN, pad \in BOOLEAN :
    \E d \in EqFlips(size, w) :
      /\ variant = kind
      /\ m_block_size = w
      /\ Holds(with_bits(size, FALSE, EqBits(size, u)))
      /\ LET o == with_bits(size, pad, EqFlipped(size, u, d))
         IN  other = [size |-> o.size, storage |-> o.storage,
                      partial |-> o.partial, data |-> o.data]
      /\ result = <<>>
      /\ last = Call(IF kind = "fixed" THEN "bitset" ELSE "dynamic_bitset",
                     size, d, u, {})

\* result = (*this == other)
CallEquals ==
    /\ Running
    /\ calls = 0
    /\ \E r \in (IF variant = "fixed" THEN operator_eq(Snap, other)
                 ELSE dynamic_operator_eq(Snap, other)) :
         /\ result' = r
         /\ ub' = eq_mask_ub(m_partial_size)
         /\ last' = Call("operator==", 0, 0, FALSE, {})
         /\ calls' = calls + 1
         /\ UNCHANGED <<variant, m_block_size, m_size, m_storage_size,
                        m_partial_size, m_data, other>>

EqNext ==
    \/ CallEquals

SpecEq == EqInit /\ [][EqNext]_vars

\* C10: for two bitsets of the same type and size, every block width from 8
\* to 64 bits and every partial size, a == b holds iff test(i) agrees for
\* every i < size(); padding bits never change the result.
C10_EqualityIgnoresPadding ==
    last.op = "operator==" =>
        (result <=> \A i \in 0..(m_size - 1) : Bit(Snap, i) = Bit(other, i))

----------------------------------------------------------------------------
\* Whole-set queries and single-bit writes (the two classes carry the same
\* code; bitset reads Size where dynamic_bitset reads m_size)

\* set(index, value) with the shift count not reduced modulo the block width
set_unreduced(s, index, value) ==
    IF s.data.null
    THEN Outcome(s.size, s.storage, s.partial, s.data, {"null_deref"})
    ELSE IF ~InArray(s.data, index \div m_block_size)
    THEN Outcome(s.size, s.storage, s.partial, s.data, {"oob_write"})
    ELSE Outcome(s.size, s.storage, s.partial,
                 Ptr(apply_mask(s.data.arr, index \div m_block_size,
                                IF index < m_block_size THEN {index} ELSE {},
                                value)), {})

\* set(index, value)
set(s, index, value) ==
    IF s.data.null
    THEN Outcome(s.size, s.storage, s.partial, s.data, {"null_deref"})
    ELSE IF ~InArray(s.data, index \div m_block_size)
    THEN Outcome(s.size, s.storage, s.partial, s.data, {"oob_write"})
    ELSE Outcome(s.size, s.storage, s.partial,
                 Ptr(set_bit(s.data.arr, index, value)), {})

\* the blocks read by the first loop of all() / any() / none(), i.e. blocks
\* 0 .. m_storage_size - !!m_partial_size - 1; a block outside the array
\* reads as g
full_blocks(s, g) ==
    LET n == SizeT(s.storage - Bool01(s.partial))
        len == IF s.data.null THEN 0 ELSE Len(s.data.arr)
    IN  { s.data.arr[k] : k \in 1..Min(n, len) } \cup (IF n > len THEN {g} ELSE {})

\* m_data[m_size / m_block_size] & BlockType{1} << i, as a bool; h tells
\* whether an undefined shift masks its count (TRUE) or yields 0 (FALSE)
partial_probe(s, i, g, h) ==
    LET b == IF InArray(s.data, s.size \div m_block_size)
             THEN s.data.arr[(s.size \div m_block_size) + 1] ELSE g
    IN  IF i < m_block_size THEN i \in b
        ELSE IF i < OperandBits THEN FALSE
        ELSE h /\ (i % OperandBits) \in b

\* undefined behaviour executed by all() / any() / none() when the scan runs
\* to its end
scan_ub(s) ==
    LET n == SizeT(s.storage - Bool01(s.partial))
        len == IF s.data.null THEN 0 ELSE Len(s.data.arr)
    IN  (IF s.data.null /\ (n > 0 \/ s.partial # 0) THEN {"null_deref"} ELSE {})
        \cup (IF ~s.data.null /\ (n > len \/ (s.partial # 0 /\ s.size \div m_block_size >= len))
              THEN {"oob_read"} ELSE {})
        \cup (IF s.partial > OperandBits THEN {"shift"} ELSE {})

\* all(): the set of values the call can return
all(s) ==
    { /\ \A b \in full_blocks(s, g) : b = AllSet
      /\ \A i \in 0..(s.partial - 1) : partial_probe(s, i, g, h)
      : g \in Indeterminate, h \in BOOLEAN }

\* any()
any(s) ==
    { \/ \E b \in full_blocks(s, g) : b # AllClear
      \/ \E i \in 0..(s.partial - 1) : partial_probe(s, i, g, h)
      : g \in Indeterminate, h \in BOOLEAN }

\* none()
none(s) ==
    { /\ \A b \in full_blocks(s, g) : b = AllClear
      /\ \A i \in 0..(s.partial - 1) : ~partial_probe(s, i, g, h)
      : g \in Indeterminate, h \in BOOLEAN }

\* count(): population count over all m_storage_size blocks
RECURSIVE count_blocks(_, _)
count_blocks(a, n) ==
    IF n = 0 THEN 0 ELSE Cardinality(a[n]) + count_blocks(a, n - 1)

count(s) == IF s.data.null THEN 0 ELSE count_blocks(s.data.arr, Min(s.storage, Len(s.data.arr)))

----------------------------------------------------------------------------
\* The dynamic_bitset<uint8_t> state machine extended with single-bit writes
\* and the whole-set queries.  result holds the value the last query
\* returned.

\* the object is left as it is by the query c, which returns value and
\* executes the undefined behaviour u
Answers(c, value, u) ==
    /\ Takes(Outcome(m_size, m_storage_size, m_partial_size, m_data, u), c)
    /\ result' = value
    /\ UNCHANGED other

SetBit ==
    /\ Running
    /\ calls < MaxCalls
    /\ \E index \in 0..(Min(m_size, MaxSize) - 1), value \in BOOLEAN :
         Becomes(set(Snap, index, value), Call("set", index, 0, value, {}))

CallAll ==
    /\ Running
    /\ calls < MaxCalls
    /\ \E r \in all(Snap) : Answers(Call("all", 0, 0, FALSE, {}), r, scan_ub(Snap))

CallAny ==
    /\ Running
    /\ calls < MaxCalls
    /\ \E r \in any(Snap) : Answers(Call("any", 0, 0, FALSE, {}), r, scan_ub(Snap))

CallNone ==
    /\ Running
    /\ calls < MaxCalls
    /\ \E r \in none(Snap) : Answers(Call("none", 0, 0, FALSE, {}), r, scan_ub(Snap))

QueryNext ==
    \/ PushBack
    \/ PopBack
    \/ Resize
    \/ SetBit
    \/ CallAll
    \/ CallAny
    \/ CallNone

SpecQuery == Init /\ [][QueryNext]_vars

\* C11: all(), any() and none() depend only on the bits below size(): all()
\* is true iff every such bit is set, any() is true iff at least one such bit
\* is set, and none() is the negation of any().
C11_QueriesSeeOnlyBits ==
    LET bits == { i \in 0..(Min(m_size, MaxSize + 1) - 1) : Bit(Snap, i) }
        every == \A i \in 0..(Min(m_size, MaxSize + 1) - 1) : i \in bits
    IN  /\ (last.op = "all" /\ Running) => (result = every)
        /\ (last.op = "any" /\ Running) => (result = (bits # {}))
        /\ (last.op = "none" /\ Running) => (result = (bits = {}))

----------------------------------------------------------------------------
\* set(index, value) on a bitset<uint8_t, Size> built from a string

\* largest Size of the bitsets that are written bit by bit
MaxSetSize == 10
\* number of set calls made on one bitset
MaxSetCalls == 2

SetInit ==
    \E size \in 1..MaxSetSize : \E str \in Strings(size, {"1", "0"}) :
      /\ variant = "fixed"
      /\ m_block_size = 8
      /\ Holds(bitset_from_string(size, str, "1"))
      /\ other = NoSnap
      /\ result = <<>>
      /\ last = Call("bitset", size, 0, FALSE, str)

CallSet ==
    /\ Running
    /\ calls < MaxSetCalls
    /\ \E index \in 0..(m_size - 1), value \in BOOLEAN :
         Becomes(set(Snap, index, value), Call("set", index, 0, value, {}))

SetNext ==
    \/ CallSet

SpecSet == SetInit /\ [][SetNext]_vars

\* C12: for every i in [0, size()), set(i, true) makes test(i) true, leaves
\* test(j) unchanged for every j != i, and raises count() by exactly 1 unless
\* bit i was already set, in which case count() is unchanged.
C12_SetOneBit ==
    [][ (last'.op = "set" /\ last'.v) =>
          /\ Bit(Snap', last'.a)
          /\ \A j \in 0..(m_size - 1) : j # last'.a => Bit(Snap', j) = Bit(Snap, j)
          /\ count(Snap') = count(Snap) + (IF Bit(Snap, last'.a) THEN 0 ELSE 1) ]_vars

\* set(i, true) has been called on a clear bit of the partial second block of
\* a bitset that has other bits set, and on a bit that was already set
C12_SetReached ==
    /\ last.op = "set"
    /\ last.v
    /\ calls = 2
    /\ last.a >= m_block_size
    /\ m_partial_size # 0
    /\ Bit(Snap, last.a)
    /\ count(Snap) >= 3

----------------------------------------------------------------------------
\* Whole-set writes: flip(), set(), clear() (same code in both classes)

\* flip(): m_data[i] = ~m_data[i] for every i < m_storage_size
flip(s) ==
    IF s.storage = 0 THEN Outcome(s.size, s.storage, s.partial, s.data, {})
    ELSE IF s.data.null
    THEN Outcome(s.size, s.storage, s.partial, s.data, {"null_deref"})
    ELSE Outcome(s.size, s.storage, s.partial,
                 Ptr([k \in 1..Len(s.data.arr) |->
                        IF k <= s.storage THEN AllSet \ s.data.arr[k]
                        ELSE s.data.arr[k]]),
                 IF s.storage > Len(s.data.arr) THEN {"oob_write"} ELSE {})

\* ::memset(m_data, value ? 255 : 0, m_storage_size * sizeof(BlockType)), the
\* body of set() and of clear()
memset_all(s, value) ==
    IF s.storage = 0 THEN Outcome(s.size, s.storage, s.partial, s.data, {})
    ELSE IF s.data.null
    THEN Outcome(s.size, s.storage, s.partial, s.data, {"null_deref"})
    ELSE Outcome(s.size, s.storage, s.partial,
                 Ptr(memset(s.data.arr, 0, value, s.storage * SizeOf)),
                 IF memset_oob(Len(s.data.arr), 0, s.storage * SizeOf)
                 THEN {"oob_write"} ELSE {})

\* set()
set_all(s) == memset_all(s, TRUE)

\* clear()
clear(s) == memset_all(s, FALSE)

----------------------------------------------------------------------------
\* flip(), set(), clear() and none() called in any order on a
\* bitset<uint8_t, Size> holding any pattern, or on a dynamic_bitset<uint8_t>
\* that is also pushed to and popped from.  other keeps the object as it was
\* before the last whole-set write, result the value of the last none() and
\* the name of the call before the last one.

\* largest Size of the fixed bitsets
MaxIdemSize == 9
\* number of calls made on one object
MaxIdemCalls == 4

IdemInit ==
    /\ result = [value |-> FALSE, prev |-> ""]
    /\ other = NoSnap
    /\ m_block_size = 8
    /\ \/ \E size \in 1..MaxIdemSize, pad \in BOOLEAN :
          \E bits \in [1..size -> BOOLEAN] :
            /\ variant = "fixed"
            /\ Holds(with_bits(size, pad, bits))
            /\ last = Call("bitset", size, 0, pad, {})
       \/ /\ variant = "dynamic"
          /\ Holds(dynamic_bitset_empty)
          /\ last = Call("dynamic_bitset", 0, 0, FALSE, {})
       \/ \E size \in 0..MaxSize, val \in BOOLEAN :
            /\ variant = "dynamic"
            /\ Holds(dynamic_bitset_fill(size, val))
            /\ last = Call("dynamic_bitset", size, 1, val, {})

\* the object takes the outcome o of the whole-set call named name, which
\* returns value
Idem(o, name, value) ==
    /\ Takes(o, Call(name, 0, 0, FALSE, {}))
    /\ other' = Snap
    /\ result' = [value |-> value, prev |-> last.op]

Flip ==
    /\ Running
    /\ calls < MaxIdemCalls
    /\ Idem(flip(Snap), "flip", FALSE)

SetAll ==
    /\ Running
    /\ calls < MaxIdemCalls
    /\ Idem(set_all(Snap), "set()", FALSE)

ClearAll ==
    /\ Running
    /\ calls < MaxIdemCalls
    /\ Idem(clear(Snap), "clear()", FALSE)

IsNone ==
    /\ Running
    /\ calls < MaxIdemCalls
    /\ \E r \in none(Snap) :
         Idem(Outcome(m_size, m_storage_size, m_partial_size, m_data, scan_ub(Snap)),
              "none", r)

IdemNext ==
    \/ Flip
    \/ SetAll
    \/ ClearAll
    \/ IsNone
    \/ PushBack
    \/ PopBack

SpecIdem == IdemInit /\ [][IdemNext]_vars

\* C13: for any bitset state, flip() applied twice restores the original
\* value of every block, and set() followed by clear() yields none() == true.
C13_FlipTwiceSetClear ==
    [][ /\ (last.op = "flip" /\ last'.op = "flip") =>
              /\ ub' = {}
              /\ m_data' = other.data
        /\ (result.prev = "set()" /\ last.op = "clear()" /\ last'.op = "none") =>
              result'.value = TRUE ]_vars

----------------------------------------------------------------------------
\* flip_range(begin, end) (same code in both classes)

\* "m_data[blk] ^= BlockType{1} << i" for every i of mask
xor_mask(a, blk, mask) ==
    [a EXCEPT ![blk + 1] = (@ \ mask) \cup (mask \ @)]

flip_range(s, begin, end) ==
    LET bb == begin \div m_block_size
        eb == end \div m_block_size
        head == (begin % m_block_size) # 0
        tail == (end % m_block_size) # 0
        to_add == IF head THEN 1 ELSE 0
        head_mask == { i \in Offsets : i >= begin % m_block_size }
        tail_mask == { i \in Offsets : i < end % m_block_size }
        a0 == s.data.arr
        a1 == IF head THEN xor_mask(a0, bb, head_mask) ELSE a0
        a2 == [k \in 1..Len(a1) |->
                 IF k - 1 >= bb + to_add /\ k - 1 < eb THEN AllSet \ a1[k] ELSE a1[k]]
        a3 == IF tail THEN xor_mask(a2, eb, tail_mask) ELSE a2
    IN  Outcome(s.size, s.storage, s.partial, Ptr(a3), {})

----------------------------------------------------------------------------
\* flip_range applied once to a freshly filled bitset of either class

FlipRange ==
    /\ Running
    /\ calls = 0
    /\ \E begin \in 0..m_size : \E end \in begin..m_size :
         Becomes(flip_range(Snap, begin, end),
                 Call("flip_range", begin, end, FALSE, {}))

FlipRangeNext ==
    \/ FlipRange

SpecFlipRange == FillInit /\ [][FlipRangeNext]_vars

\* C20: for every 0 <= begin <= end <= size(), including begin and end inside
\* the same block with begin not block-aligned, flip_range(begin, end)
\* inverts exactly the bits with index in [begin, end) and leaves every bit
\* outside that range unchanged.
C20_FlipRange ==
    [][ last'.op = "flip_range" =>
          \A i \in 0..(m_size - 1) :
            Bit(Snap', i) = IF last'.a <= i /\ i < last'.b THEN ~Bit(Snap, i)
                            ELSE Bit(Snap, i) ]_vars

----------------------------------------------------------------------------
\* Two dynamic_bitset<uint8_t> objects a and b and the heap their block
\* arrays live on.  The member variables are those of a, other holds b.
\* result records which of the objects are alive (constructed and not yet
\* destroyed), the address each m_data holds (0 is nullptr) and the status of
\* every heap address.  Arrays are kept by value in m_data and other.data;
\* when both objects hold the same address every write goes to both.

\* sizes the objects are constructed with
OwnSizes == {0, 3, 8, 9}
\* number of block arrays that can be allocated in one run
MaxAllocs == 4
\* number of calls made after the construction of b
MaxOwnCalls == 4

Addresses == 1..MaxAllocs

Owned(alive, addr_a, addr_b, heap) ==
    [alive |-> alive, addr |-> [a |-> addr_a, b |-> addr_b], heap |-> heap]

\* the address returned by new BlockType[n]: addresses are never reused
fresh(heap) == CHOOSE n \in Addresses : heap[n] = "unused" /\
                   \A k \in Addresses : heap[k] = "unused" => n <= k

can_allocate(heap) == \E n \in Addresses : heap[n] = "unused"

\* new BlockType[...] returning address n
allocate(heap, n) == [heap EXCEPT ![n] = "live"]

\* delete[] p with p holding address n
delete(heap, n) ==
    IF n = 0 THEN heap
    ELSE [heap EXCEPT ![n] = IF @ = "live" THEN "freed" ELSE "freed_twice"]

delete_ub(heap, n) == IF n # 0 /\ heap[n] # "live" THEN {"double_free"} ELSE {}

\* does a pointer holding address n point to freed storage
dangling(heap, n) == n # 0 /\ heap[n] # "live"

\* the empty state: size 0, storage size 0, partial size 0, nullptr
Empty == [size |-> 0, storage |-> 0, partial |-> 0, data |-> NullPtr]

\* the state of an object without the undefined behaviour of the call
Fields(o) == [size |-> o.size, storage |-> o.storage,
              partial |-> o.partial, data |-> o.data]

OwnInit ==
    \E size \in OwnSizes, val \in BOOLEAN, dflt \in BOOLEAN :
      LET o == IF dflt THEN dynamic_bitset_empty ELSE dynamic_bitset_fill(size, val)
      IN  /\ variant = "dynamic"
          /\ m_block_size = 8
          /\ Holds(dynamic_bitset_empty)
          /\ other = Fields(o)
          /\ result = Owned({"b"}, 0, IF dflt THEN 0 ELSE 1,
                            [n \in Addresses |->
                               IF n = 1 /\ ~dflt THEN "live" ELSE "unused"])
          /\ last = Call("dynamic_bitset", size, 0, val, "b")

\* a becomes sa, b becomes sb, after the call c that executed u
OwnStep(c, sa, u, sb, alive, addr_a, addr_b, heap) ==
    /\ Takes(Outcome(sa.size, sa.storage, sa.partial, sa.data, u), c)
    /\ other' = sb
    /\ result' = Owned(alive, addr_a, addr_b, heap)

OwnRunning == Running /\ calls < MaxOwnCalls

\* dynamic_bitset a(size, val)
OwnConstruct ==
    /\ OwnRunning
    /\ "a" \notin result.alive
    /\ can_allocate(result.heap)
    /\ \E size \in OwnSizes, val \in BOOLEAN :
         LET n == fresh(result.heap)
         IN  OwnStep(Call("dynamic_bitset", size, 0, val, "a"),
                     Fields(dynamic_bitset_fill(size, val)), {}, other,
                     result.alive \cup {"a"}, n, result.addr.b,
                     allocate(result.heap, n))

\* dynamic_bitset a(b): the members are copied, m_data is a new array of
\* b.m_storage_size blocks, _from_other(const dynamic_bitset&) copies the
\* blocks
CopyConstruct ==
    /\ OwnRunning
    /\ "a" \notin result.alive
    /\ "b" \in result.alive
    /\ can_allocate(result.heap)
    /\ LET n == fresh(result.heap)
           c == Call("copy_ctor", 0, 0, FALSE, "a")
       IN  \E g \in Indeterminate :
             OwnStep(c, [other EXCEPT !.data = Ptr(copy_of(other, g))],
                     IF dangling(result.heap, result.addr.b)
                     THEN {"use_after_free"} ELSE {},
                     other, result.alive \cup {"a"}, n, result.addr.b,
                     allocate(result.heap, n))

\* dynamic_bitset a(std::move(b)): the members are copied, m_data included.
\* In the body other is an lvalue, so _from_other(other) is the copying
\* overload: it copies the array onto itself and leaves b as it is.
MoveConstruct ==
    /\ OwnRunning
    /\ "a" \notin result.alive
    /\ "b" \in result.alive
    /\ OwnStep(Call("move_ctor", 0, 0, FALSE, "a"), other,
               IF dangling(result.heap, result.addr.b)
               THEN {"use_after_free"} ELSE {},
               other, result.alive \cup {"a"}, result.addr.b, result.addr.b,
               result.heap)

\* a = b: zeroes a's m_storage_size blocks and copies
\* min(m_storage_size, b.m_storage_size) blocks of b into them; the members
\* of a are not assigned
CopyAssign ==
    /\ OwnRunning
    /\ {"a", "b"} \subseteq result.alive
    /\ LET c == Call("copy_assign", 0, 0, FALSE, "a")
           n == Min(m_storage_size, other.storage)
           shared == result.addr.a # 0 /\ result.addr.a = result.addr.b
           stale == dangling(result.heap, result.addr.a)
                      \/ (n > 0 /\ dangling(result.heap, result.addr.b))
       IN  IF (m_data.null /\ m_storage_size > 0) \/ (other.data.null /\ n > 0)
           THEN OwnStep(c, Snap, {"null_deref"}, other, result.alive,
                        result.addr.a, result.addr.b, result.heap)
           ELSE IF m_data.null
           THEN OwnStep(c, Snap, {}, other, result.alive,
                        result.addr.a, result.addr.b, result.heap)
           ELSE \E g \in Indeterminate :
                  LET zeroed == memset(m_data.arr, 0, FALSE, m_storage_size * SizeOf)
                      src == IF shared THEN zeroed ELSE other.data.arr
                      copied == copy_blocks(src, n, zeroed, g)
                  IN  OwnStep(c, [Snap EXCEPT !.data = Ptr(copied)],
                              IF stale THEN {"use_after_free"} ELSE {},
                              IF shared THEN [other EXCEPT !.data = Ptr(copied)]
                              ELSE other,
                              result.alive, result.addr.a, result.addr.b,
                              result.heap)

\* a = std::move(b): the members of b are assigned to a, b is emptied; the
\* array a held before is not deleted
MoveAssign ==
    /\ OwnRunning
    /\ {"a", "b"} \subseteq result.alive
    /\ OwnStep(Call("move_assign", 0, 0, FALSE, "a"), other, {}, Empty,
               result.alive, result.addr.b, 0, result.heap)

\* a.set(index, value) or b.set(index, value)
OwnSet ==
    /\ OwnRunning
    /\ \E t \in result.alive, value \in BOOLEAN :
         LET s == IF t = "a" THEN Snap ELSE other
             shared == result.addr.a # 0 /\ result.addr.a = result.addr.b
                         /\ {"a", "b"} \subseteq result.alive
         IN  /\ s.size >= 1
             /\ s.size <= MaxSize
             /\ \E index \in {0, s.size - 1} :
                  LET o == set(s, index, value)
                      u == o.ub \cup (IF dangling(result.heap, result.addr[t])
                                      THEN {"use_after_free"} ELSE {})
                      sa == IF t = "a" \/ shared THEN [Snap EXCEPT !.data = o.data]
                            ELSE Snap
                      sb == IF t = "b" \/ shared THEN [other EXCEPT !.data = o.data]
                            ELSE other
                  IN  OwnStep(Call("set", index, 0, value, t), sa, u, sb,
                              result.alive, result.addr.a, result.addr.b,
                              result.heap)

\* a.push_back(value): on a block boundary a new array is allocated and the
\* old one deleted, otherwise the last block is written in place
OwnPushBack ==
    /\ OwnRunning
    /\ "a" \in result.alive
    /\ m_size < MaxSize
    /\ can_allocate(result.heap)
    /\ \E value \in BOOLEAN : \E o \in push_back(Snap, value) :
         LET c == Call("push_back", 0, 0, value, "a")
             grow == (m_size % m_block_size) = 0
             n == fresh(result.heap)
             shared == result.addr.a # 0 /\ result.addr.a = result.addr.b
             stale == dangling(result.heap, result.addr.a)
         IN  IF o.ub \cap Fatal # {}
             THEN OwnStep(c, Fields(o), o.ub, other, result.alive,
                          result.addr.a, result.addr.b, result.heap)
             ELSE IF grow
             THEN OwnStep(c, Fields(o),
                          o.ub \cup delete_ub(result.heap, result.addr.a),
                          other, result.alive, n, result.addr.b,
                          allocate(delete(result.heap, result.addr.a), n))
             ELSE OwnStep(c, Fields(o),
                          o.ub \cup (IF stale THEN {"use_after_free"} ELSE {}),
                          IF shared THEN [other EXCEPT !.data = o.data] ELSE other,
                          result.alive, result.addr.a, result.addr.b, result.heap)

\* ~dynamic_bitset() of a: delete[] m_data
DestroyA ==
    /\ OwnRunning
    /\ "a" \in result.alive
    /\ OwnStep(Call("~dynamic_bitset", 0, 0, FALSE, "a"), Snap,
               delete_ub(result.heap, result.addr.a), other,
               result.alive \ {"a"}, result.addr.a, result.addr.b,
               delete(result.heap, result.addr.a))

\* ~dynamic_bitset() of b
DestroyB ==
    /\ OwnRunning
    /\ "b" \in result.alive
    /\ OwnStep(Call("~dynamic_bitset", 0, 0, FALSE, "b"), Snap,
               delete_ub(result.heap, result.addr.b), other,
               result.alive \ {"b"}, result.addr.a, result.addr.b,
               delete(result.heap, result.addr.b))

OwnNext ==
    \/ OwnConstruct
    \/ CopyConstruct
    \/ MoveConstruct
    \/ CopyAssign
    \/ MoveAssign
    \/ OwnSet
    \/ OwnPushBack
    \/ DestroyA
    \/ DestroyB

SpecOwn == OwnInit /\ [][OwnNext]_vars

\* C14: after moving a dynamic_bitset (move construction or move
\* assignment) the target holds the source's former size, storage size,
\* partial size and block contents, and the source is in the empty state:
\* size 0, storage size 0, partial size 0, null data pointer.
C14_MoveEmptiesSource ==
    [][ last'.op \in {"move_ctor", "move_assign"} =>
          /\ Snap' = other
          /\ other' = Empty ]_vars

\* C15: copying a dynamic_bitset (copy construction or copy assignment a = b,
\* for any sizes of a and b) leaves the target with its own separately
\* allocated array and with the same size and the same bit at every index as
\* the source; later writes to one do not change the other.
C15_CopyDuplicates ==
    [][ /\ last'.op \in {"copy_ctor", "copy_assign"} =>
              /\ result'.addr.a = 0 \/ result'.addr.a # result'.addr.b
              /\ m_size' = other'.size
              /\ \A i \in 0..(other'.size - 1) : Bit(Snap', i) = Bit(other', i)
        /\ (last.op \in {"copy_ctor", "copy_assign"} /\ last'.op = "set") =>
              IF last'.blk = "a" THEN other' = other ELSE Snap' = Snap ]_vars

\* C16: each heap block array is owned by exactly one live instance at a
\* time and is freed exactly once: never freed twice, never freed while a
\* live instance still points to it, and never left unfreed after its owner
\* drops it.
C16_ExclusiveOwnership ==
    LET held(t) == IF t \in result.alive THEN result.addr[t] ELSE 0
    IN  /\ \A n \in Addresses : result.heap[n] # "freed_twice"
        /\ \A t \in result.alive : ~dangling(result.heap, result.addr[t])
        /\ held("a") # 0 => held("a") # held("b")
        /\ \A n \in Addresses :
             result.heap[n] = "live" => n \in {held("a"), held("b")}

----------------------------------------------------------------------------
\* Reverse iteration: for (it = rbegin(); it != rend(); ++it) *it, with the
\* iterators of the mutable object (reverse_iterator) or of the const object
\* (const_reverse_iterator, also returned by crbegin() / crend()).  result
\* holds the iterator, the position in the loop and the indices dereferenced
\* so far.

\* largest size of the bitsets that are traversed
MaxRevSize == 8

\* iterator_base(bitset, index = 0): m_index
iterator_base(index) == SizeT(index)

\* rbegin(): reverse_iterator(*this, Size - 1)
rbegin == iterator_base(m_size - 1)

\* rend(), rend() const, crend(): reverse_iterator(*this, -1)
rend == iterator_base(-1)

\* rbegin() const, crbegin(): const_reverse_iterator(*this)
crbegin == iterator_base(0)

RevInit ==
    \E kind \in {"fixed", "dynamic"}, size \in 1..MaxRevSize, val \in BOOLEAN :
      /\ variant = kind
      /\ m_block_size = 8
      /\ Holds(filled(size, val))
      /\ other = NoSnap
      /\ result = [it |-> "", m_index |-> 0, pc |-> "begin", visited |-> <<>>]
      /\ last = Call(IF kind = "fixed" THEN "bitset" ELSE "dynamic_bitset",
                     size, 1, val, {})

\* the object is only read
Iterates(name, u) ==
    /\ last' = Call(name, 0, 0, FALSE, {})
    /\ ub' = u
    /\ calls' = calls + 1
    /\ UNCHANGED <<variant, m_block_size, m_size, m_storage_size,
                   m_partial_size, m_data, other>>

\* it = rbegin() on the mutable object
RBegin ==
    /\ result.pc = "begin"
    /\ result' = [result EXCEPT !.it = "reverse_iterator", !.m_index = rbegin,
                                !.pc = "compare"]
    /\ Iterates("rbegin", {})

\* it = rbegin() on the const object, or it = crbegin()
CRBegin ==
    /\ result.pc = "begin"
    /\ result' = [result EXCEPT !.it = "const_reverse_iterator",
                                !.m_index = crbegin, !.pc = "compare"]
    /\ Iterates("crbegin", {})

\* it != rend(): operator!= compares m_index
NotAtREnd ==
    /\ result.pc = "compare"
    /\ result' = [result EXCEPT !.pc = IF result.m_index # rend THEN "deref"
                                       ELSE "done"]
    /\ Iterates("operator!=", {})

\* *it
Dereference ==
    /\ result.pc = "deref"
    /\ result' = [result EXCEPT !.visited = Append(@, result.m_index),
                                !.pc = "increment"]
    /\ Iterates("operator*",
                IF InArray(m_data, result.m_index \div m_block_size) THEN {}
                ELSE {"oob_read"})

\* ++it: --m_index
Increment ==
    /\ result.pc = "increment"
    /\ result' = [result EXCEPT !.m_index = SizeT(@ - 1), !.pc = "compare"]
    /\ Iterates("operator++", {})

RevNext ==
    \/ RBegin
    \/ CRBegin
    \/ NotAtREnd
    \/ Dereference
    \/ Increment

SpecRev == RevInit /\ [][RevNext]_vars

\* C17: reverse traversal from rbegin() to rend(), for the mutable and the
\* const (rbegin() const / crbegin()) variants alike, visits the bit indices
\* size()-1, size()-2, ..., 0 in that order, each exactly once, and then
\* compares equal to rend().
C17_ReverseTraversal ==
    /\ Len(result.visited) <= m_size
    /\ \A n \in 1..Len(result.visited) : result.visited[n] = m_size - n
    /\ result.pc = "done" => Len(result.visited) = m_size

----------------------------------------------------------------------------
\* bitset<BlockType, Size>: geometry accessors.  result holds the value the
\* last accessor returned, as the integer it compares as.

\* largest Size of the bitsets whose geometry is read
MaxGeomSize == 70

\* static constexpr size_t m_full_storage_size = Size / m_block_size
m_full_storage_size == m_size \div m_block_size

\* storage_size(): consteval size_t, returns m_storage_size
storage_size == m_storage_size

\* full_storage_size(): consteval size_t, returns m_full_storage_size
full_storage_size == m_full_storage_size

\* partial_size(): consteval bool, returns m_partial_size converted to bool
partial_size == Bool01(m_partial_size)

GeomInit ==
    \E w \in BlockSizes, size \in 1..MaxGeomSize :
      /\ variant = "fixed"
      /\ m_block_size = w
      /\ Holds(filled(size, FALSE))
      /\ other = NoSnap
      /\ result = 0
      /\ last = Call("bitset", size, 0, FALSE, {})

\* the accessor name returns value
Returns(name, value) ==
    /\ result' = value
    /\ last' = Call(name, 0, 0, FALSE, {})
    /\ calls' = calls + 1
    /\ UNCHANGED <<variant, m_block_size, m_size, m_storage_size,
                   m_partial_size, m_data, other, ub>>

StorageSize ==
    /\ calls = 0
    /\ Returns("storage_size", storage_size)

FullStorageSize ==
    /\ calls = 0
    /\ Returns("full_storage_size", full_storage_size)

PartialSize ==
    /\ calls = 0
    /\ Returns("partial_size", partial_size)

GeomNext ==
    \/ StorageSize
    \/ FullStorageSize
    \/ PartialSize

SpecGeom == GeomInit /\ [][GeomNext]_vars

\* C18: for a fixed bitset<Block, N> with block width W, storage_size() ==
\* ceil(N / W), full_storage_size() == N / W (integer division) and
\* partial_size() == N % W.
C18_Geometry ==
    /\ last.op = "storage_size" => result = CeilBlocks(m_size)
    /\ last.op = "full_storage_size" => result = m_size \div m_block_size
    /\ last.op = "partial_size" => result = m_size % m_block_size

----------------------------------------------------------------------------
\* Consecutive push_back calls on an initially empty dynamic_bitset<uint8_t>
\* (any values) or dynamic_bitset<uint32_t> (true only)

\* number of pushes made beyond the first full block
MaxGrowth == 2

GrowInit ==
    \E w \in {8, 32} :
      /\ variant = "dynamic"
      /\ m_block_size = w
      /\ Holds(dynamic_bitset_empty)
      /\ other = NoSnap
      /\ result = <<>>
      /\ last = Call("dynamic_bitset", 0, 0, FALSE, {})

GrowPushBack ==
    /\ Running
    /\ calls < m_block_size + MaxGrowth
    /\ \E value \in (IF m_block_size = 8 THEN BOOLEAN ELSE {TRUE}) :
       \E o \in push_back(Snap, value) :
         Becomes(o, Call("push_back", 0, 0, value, {}))

GrowNext ==
    \/ GrowPushBack

SpecGrow == GrowInit /\ [][GrowNext]_vars

\* C19: after k >= 1 consecutive push_back calls on an initially empty
\* dynamic_bitset the size is k, storage_size == ceil(k / W), partial_size ==
\* k % W, and the bit pushed last reads back (e.g. W = 32, 33 pushes of true
\* give storage_size 2, partial_size 1, test(32) true).
C19_PushBackGeometry ==
    last.op = "push_back" =>
        /\ m_size = calls
        /\ m_storage_size = CeilBlocks(calls)
        /\ m_partial_size = calls % m_block_size
        /\ Bit(Snap, calls - 1) = last.v

----------------------------------------------------------------------------
\* Range operations with a step argument (same code in both classes):
\* fill_range / set_range / clear_range / flip_range (begin, end, step) over
\* bit indices, fill_block_range / flip_block_range (begin, end, step) over
\* block indices.  Each is the loop
\*     for (size_t i = begin; i < end; i += step) <body>

\* the bit operations and the block operations that take a step
BitRangeOps == {"fill_range", "set_range", "clear_range", "flip_range"}
BlockRangeOps == {"fill_block_range", "flip_block_range"}

\* the array after one execution of the loop body of operation name at i
range_body(a, name, i, value, block) ==
    CASE name = "fill_range"       -> set_bit(a, i, value)
      [] name = "set_range"        -> set_bit(a, i, TRUE)
      [] name = "clear_range"      -> set_bit(a, i, FALSE)
      [] name = "flip_range"       -> xor_mask(a, i \div m_block_size,
                                               {i % m_block_size})
      [] name = "fill_block_range" -> [a EXCEPT ![i + 1] = block]
      [] name = "flip_block_range" -> [a EXCEPT ![i + 1] = AllSet \ @]

\* "i += step" on a size_t
next_index(i, step) == SizeT(i + step)

\* the arrays the loop can return with, entered with index i: none when the
\* index never reaches end
RECURSIVE range_loop(_, _, _, _, _, _, _)
range_loop(a, name, i, end, step, value, block) ==
    IF ~(i < end) THEN {a}
    ELSE IF next_index(i, step) = i THEN {}
    ELSE range_loop(range_body(a, name, i, value, block), name,
                    next_index(i, step), end, step, value, block)

\* the outcomes of name(begin, end, step, ...) on the object s
range_step(s, name, begin, end, step, value, block) ==
    { Outcome(s.size, s.storage, s.partial, Ptr(a), {}) :
        a \in range_loop(s.data.arr, name, begin, end, step, value, block) }

\* the step values ranges are walked with
Steps == {0, 1, 2, 3, SIZE_MAX - 1, SIZE_MAX}

\* one call of a bit range operation on a freshly filled bitset
StepCall(name, values) ==
    \E begin \in 0..m_size, step \in Steps, value \in values :
      \E end \in begin..m_size :
        \E o \in range_step(Snap, name, begin, end, step, value, {}) :
          Becomes(o, Call(name, begin, end, value, step))

FillRangeStep ==
    /\ Running
    /\ calls = 0
    /\ StepCall("fill_range", BOOLEAN)

SetRangeStep ==
    /\ Running
    /\ calls = 0
    /\ StepCall("set_range", {TRUE})

ClearRangeStep ==
    /\ Running
    /\ calls = 0
    /\ StepCall("clear_range", {FALSE})

FlipRangeStep ==
    /\ Running
    /\ calls = 0
    /\ StepCall("flip_range", {FALSE})

StepNext ==
    \/ FillRangeStep
    \/ SetRangeStep
    \/ ClearRangeStep
    \/ FlipRangeStep

SpecStep == FillInit /\ [][StepNext]_vars

\* is bit index i one of begin, begin + step, begin + 2 step, ... below end
OnStride(i, begin, end, step) ==
    i < end /\ i >= begin /\ (i - begin) % step = 0

\* C21: for step >= 1 and begin <= end <= size(), the strided fill_range,
\* set_range, clear_range and flip_range change only the bits whose index is
\* begin + k*step < end (k >= 0), each to v (inverted for flip_range), and
\* leave every other bit unchanged.
C21_StridedRange ==
    [][ (last'.op \in BitRangeOps /\ last'.blk >= 1) =>
          \A i \in 0..(m_size - 1) :
            Bit(Snap', i) =
              IF OnStride(i, last'.a, last'.b, last'.blk)
              THEN (IF last'.op = "flip_range" THEN ~Bit(Snap, i) ELSE last'.v)
              ELSE Bit(Snap, i) ]_vars

----------------------------------------------------------------------------
\* Whole-block capacity operations of dynamic_bitset

\* what the last call, when it is push_back_block or pop_back_block, did to
\* the size, the partial size and the blocks
BlockPushPop ==
    /\ last'.op = "push_back_block" =>
         /\ m_size' = m_size + m_block_size
         /\ m_partial_size' = 0
         /\ \A k \in 0..(m_storage_size - 1) : BlockAt(Snap', k) = BlockAt(Snap, k)
         /\ BlockAt(Snap', m_storage_size' - 1) = last'.blk
    /\ last'.op = "pop_back_block" =>
         /\ m_size' = m_size - m_block_size
         /\ m_partial_size' = 0
         /\ \A k \in 0..(m_storage_size' - 1) : BlockAt(Snap', k) = BlockAt(Snap, k)

BlockInserted ==
    /\ \A k \in 0..(last'.a - 1) : BlockAt(Snap', k) = BlockAt(Snap, k)
    /\ BlockAt(Snap', last'.a) = last'.blk
    /\ \A j \in last'.a..(m_storage_size - 1) :
         BlockAt(Snap', j + 1) = BlockAt(Snap, j)

\* C23 as stated: insert_block(index, b) for every index in
\* [0, storage_size] (index == storage_size meaning append) leaves blocks
\* below index unchanged, block index equal to b, every old block j >= index
\* at position j + 1, size grown by exactly W and partial_size unchanged.
C23_InsertBlockAnyIndex ==
    [][ last'.op = "insert_block" =>
          /\ BlockInserted
          /\ m_size' = m_size + m_block_size
          /\ m_partial_size' = m_partial_size ]_vars

\* C23: insert_block(index, b) for every index in [0, storage_size] leaves
\* blocks below index unchanged, block index equal to b and every old block
\* j >= index at position j + 1; for index < storage_size the size grows by
\* exactly W and partial_size is unchanged, for index == storage_size the
\* size becomes (storage_size + 1) * W and partial_size becomes 0.
C23_InsertBlock ==
    [][ last'.op = "insert_block" =>
          /\ BlockInserted
          /\ IF last'.a < m_storage_size
             THEN /\ m_size' = m_size + m_block_size
                  /\ m_partial_size' = m_partial_size
             ELSE /\ m_size' = (m_storage_size + 1) * m_block_size
                  /\ m_partial_size' = 0 ]_vars

\* a block inserted between two blocks
C23_BlockInsertedBetween ==
    /\ last.op = "insert_block"
    /\ last.a = 1
    /\ m_size = 3 * m_block_size
    /\ m_data = Ptr(<<AllSet, {0, 3}, AllClear>>)

\* C24: in every reachable state of a dynamic_bitset, size == 0 implies
\* storage_size == 0 and a null data pointer, whichever way the empty state
\* was reached (default construction, construction with size 0, resize(0),
\* pop_back of the last bit, pop_back_block of the last block).
C24_EmptyIsNull ==
    (variant = "dynamic" /\ Running /\ m_size = 0) =>
        /\ m_storage_size = 0
        /\ m_data.null

\* the dynamic capacity operations
CapacityOps == {"resize", "push_back", "pop_back", "insert",
                "push_back_block", "pop_back_block", "insert_block"}

\* C25: no dynamic capacity operation (resize, push_back, pop_back, insert,
\* push_back_block, pop_back_block, insert_block), called with valid
\* arguments, reads or writes a block index at or beyond the length of the
\* array it accesses; in particular the copy from the old array never reads
\* more blocks than the old array holds.
C25_CapacityInBounds ==
    last.op \in CapacityOps =>
        ub \cap {"oob_read", "oob_write", "null_deref"} = {}

----------------------------------------------------------------------------
\* The bulk memory fill of fill_range / set_range / clear_range (begin, end)

\* set_range(begin, end) and clear_range(begin, end) repeat the body of
\* fill_range(begin, end, value) with the value fixed
set_range(s, begin, end) == fill_range(s, begin, end, TRUE)

clear_range(s, begin, end) == fill_range(s, begin, end, FALSE)

\* one range call on a freshly filled bitset; result keeps the arguments
\* the call hands to ::memset
BulkCall(name, o, begin, end, value) ==
    /\ Takes(o, Call(name, begin, end, value, {}))
    /\ result' = [start |-> memset_start(begin, end),
                  count |-> memset_count(begin, end)]
    /\ UNCHANGED other

BulkFillRange ==
    /\ Running
    /\ calls = 0
    /\ \E begin \in 0..m_size, value \in BOOLEAN : \E end \in begin..m_size :
         BulkCall("fill_range", fill_range(Snap, begin, end, value),
                  begin, end, value)

BulkSetRange ==
    /\ Running
    /\ calls = 0
    /\ \E begin \in 0..m_size : \E end \in begin..m_size :
         BulkCall("set_range", set_range(Snap, begin, end), begin, end, TRUE)

BulkClearRange ==
    /\ Running
    /\ calls = 0
    /\ \E begin \in 0..m_size : \E end \in begin..m_size :
         BulkCall("clear_range", clear_range(Snap, begin, end), begin, end, FALSE)

BulkNext ==
    \/ BulkFillRange
    \/ BulkSetRange
    \/ BulkClearRange

SpecBulk == FillInit /\ [][BulkNext]_vars

\* C26: for every 0 <= begin <= end <= size() and every block width, the
\* bulk memory fill inside fill_range / set_range / clear_range (begin, end)
\* is given a byte count that does not underflow below zero and writes only
\* bytes of blocks with index in [ceil(begin / W), floor(end / W)), never a
\* byte of a boundary block or a byte outside the storage array.
C26_BulkFillInBounds ==
    last.op \in {"fill_range", "set_range", "clear_range"} =>
        /\ result.count >= 0
        /\ \A n \in 0..(result.count - 1) :
             LET blk == (result.start * SizeOf + n) \div SizeOf
             IN  /\ blk >= CeilBlocks(last.a)
                 /\ blk < last.b \div m_block_size
                 /\ InArray(m_data, blk)

----------------------------------------------------------------------------
\* A strided range operation executed one loop step at a time.  result
\* holds the position of the call (pc: "idle" before it, "test" at the loop
\* condition, "body" at the loop body, "done" after the return), the loop
\* index i and the block argument; last holds the call with its step in the
\* blk field.

\* largest bit count of the bitsets whose ranges are walked step by step
MaxLoopSize == 17

LoopInit ==
    \E kind \in {"fixed", "dynamic"}, size \in 1..MaxLoopSize, val \in BOOLEAN :
      /\ variant = kind
      /\ m_block_size = 8
      /\ Holds(filled(size, val))
      /\ other = NoSnap
      /\ result = [pc |-> "idle", i |-> 0, block |-> {}]
      /\ last = Call(IF kind = "fixed" THEN "bitset" ELSE "dynamic_bitset",
                     size, 1, val, 0)

\* the call is entered: size_t i = begin
Enter(name, begin, end, step, value, block) ==
    /\ result' = [pc |-> "test", i |-> begin, block |-> block]
    /\ last' = Call(name, begin, end, value, step)
    /\ calls' = calls + 1
    /\ UNCHANGED <<variant, m_block_size, m_size, m_storage_size,
                   m_partial_size, m_data, other, ub>>

EnterBitRange ==
    /\ result.pc = "idle"
    /\ \E name \in BitRangeOps, begin \in 0..m_size, step \in Steps,
          value \in BOOLEAN :
         \E end \in begin..m_size :
           Enter(name, begin, end, step, value, {})

EnterBlockRange ==
    /\ result.pc = "idle"
    /\ \E name \in BlockRangeOps, begin \in 0..m_storage_size, step \in Steps,
          block \in BlockValues :
         \E end \in begin..m_storage_size :
           Enter(name, begin, end, step, FALSE, block)

\* i < end holds: the loop body is entered
LoopTest ==
    /\ result.pc = "test"
    /\ result.i < last.b
    /\ result' = [result EXCEPT !.pc = "body"]
    /\ UNCHANGED <<variant, m_block_size, m_size, m_storage_size,
                   m_partial_size, m_data, other, ub, last, calls>>

\* the body runs, then i += step
LoopBody ==
    /\ result.pc = "body"
    /\ m_data' = Ptr(range_body(m_data.arr, last.op, result.i, last.v,
                                result.block))
    /\ result' = [result EXCEPT !.pc = "test", !.i = next_index(@, last.blk)]
    /\ UNCHANGED <<variant, m_block_size, m_size, m_storage_size,
                   m_partial_size, other, ub, last, calls>>

\* i < end fails: the function returns
LoopExit ==
    /\ result.pc = "test"
    /\ ~(result.i < last.b)
    /\ result' = [result EXCEPT !.pc = "done"]
    /\ UNCHANGED <<variant, m_block_size, m_size, m_storage_size,
                   m_partial_size, m_data, other, ub, last, calls>>

LoopNext ==
    \/ EnterBitRange
    \/ EnterBlockRange
    \/ LoopTest
    \/ LoopBody
    \/ LoopExit

\* a call that was entered keeps executing
SpecLoop ==
    /\ LoopInit
    /\ [][LoopNext]_vars
    /\ WF_vars(LoopTest)
    /\ WF_vars(LoopBody)
    /\ WF_vars(LoopExit)

\* the call has been entered and has not returned
InLoop == result.pc \in {"test", "body"}

\* C27: every strided range operation (fill_range, set_range, clear_range,
\* flip_range, fill_block_range and flip_block_range with a step argument)
\* terminates for every step value, including step == 0, and for every
\* begin <= end <= size().
C27_StridedRangeTerminates ==
    InLoop ~> (result.pc = "done")

----------------------------------------------------------------------------
\* operator!= beside operator==

\* bitset::operator!=(const bitset&): the set of results the call can have
operator_ne(s, o) ==
    LET full == s.size \div m_block_size
        partial == s.size % m_block_size
        storage == full + Bool01(partial)
    IN  IF \E i \in 1..full : s.data.arr[i] = o.data.arr[i]
        THEN {FALSE}
        ELSE IF partial # 0
        THEN { (s.data.arr[storage] \cap mask) # (o.data.arr[storage] \cap mask)
               : mask \in eq_mask(partial) }
        ELSE {TRUE}

\* block i (from 1) of other as operator!= of dynamic_bitset reads it:
\* indeterminate (g) past the end of other's array
other_block(o, i, g) == IF i <= Len(o.data.arr) THEN o.data.arr[i] ELSE g

\* does dynamic_bitset::operator!= read other's array past its end
dynamic_operator_ne_ub(s, o) ==
    IF \/ (s.size # o.size /\ s.storage - Bool01(s.partial) > Len(o.data.arr))
       \/ (s.partial # 0 /\ s.storage > Len(o.data.arr))
    THEN {"oob_read"} ELSE {}

\* dynamic_bitset::operator!=(const dynamic_bitset&): the block loop is the
\* body of "if (m_size != other.m_size)"
dynamic_operator_ne(s, o) ==
    UNION { IF /\ s.size # o.size
               /\ \E i \in 1..(s.storage - Bool01(s.partial)) :
                    s.data.arr[i] = other_block(o, i, g)
            THEN {FALSE}
            ELSE IF s.partial # 0
            THEN { (s.data.arr[s.storage] \cap mask)
                     # (other_block(o, s.storage, g) \cap mask)
                   : mask \in eq_mask(s.partial) }
            ELSE {TRUE}
            : g \in Indeterminate }

\* largest bit count of the bitsets compared with both operators
MaxNeSize == 17

\* two bitsets of the same type: a fixed pair has one size, a dynamic pair
\* any two sizes; the second operand repeats the first up to one inverted bit
NeInit ==
    \E kind \in {"fixed", "dynamic"}, size \in 1..MaxNeSize,
       u \in BOOLEAN, pad \in BOOLEAN :
    \E osize \in (IF kind = "fixed" THEN {size} ELSE 0..MaxNeSize) :
    \E d \in EqFlips(osize, 8) :
      /\ variant = kind
      /\ m_block_size = 8
      /\ Holds(with_bits(size, FALSE, EqBits(size, u)))
      /\ LET o == with_bits(osize, pad, EqFlipped(osize, u, d))
         IN  other = [size |-> o.size, storage |-> o.storage,
                      partial |-> o.partial, data |-> o.data]
      /\ result = [eq |-> {}, ne |-> {}]
      /\ last = Call(IF kind = "fixed" THEN "bitset" ELSE "dynamic_bitset",
                     size, osize, u, {})

\* the comparison name returns r after executing the undefined behaviour u
Compares(name, r, u) ==
    /\ ub' = u
    /\ last' = Call(name, 0, 0, r, {})
    /\ calls' = calls + 1
    /\ UNCHANGED <<variant, m_block_size, m_size, m_storage_size,
                   m_partial_size, m_data, other>>

\* *this == other
Equals ==
    /\ Running
    /\ result.eq = {}
    /\ \E r \in (IF variant = "fixed" THEN operator_eq(Snap, other)
                 ELSE dynamic_operator_eq(Snap, other)) :
         /\ result' = [result EXCEPT !.eq = {r}]
         /\ Compares("operator==", r, eq_mask_ub(m_partial_size))

\* *this != other
NotEquals ==
    /\ Running
    /\ result.ne = {}
    /\ \E r \in (IF variant = "fixed" THEN operator_ne(Snap, other)
                 ELSE dynamic_operator_ne(Snap, other)) :
         /\ result' = [result EXCEPT !.ne = {r}]
         /\ Compares("operator!=", r,
                     eq_mask_ub(m_partial_size)
                       \cup (IF variant = "fixed" THEN {}
                             ELSE dynamic_operator_ne_ub(Snap, other)))

NeNext ==
    \/ Equals
    \/ NotEquals

SpecNe == NeInit /\ [][NeNext]_vars

\* C28: for any two bitsets a, b of the same type (fixed: same size;
\* dynamic: any sizes), operator!= is the exact negation of operator==:
\* (a != b) == !(a == b).
C28_NotEqualsNegatesEquals ==
    \A e \in result.eq, n \in result.ne : n = ~e

----------------------------------------------------------------------------
\* count() after whole-set and single-bit writes on a bitset<uint8_t, Size> or
\* dynamic_bitset<uint8_t> whose size is not a multiple of the block width.
\* result holds the value the last count() returned.

\* largest bit count of the bitsets that are counted
MaxCountSize == 10

CountInit ==
    \E kind \in {"fixed", "dynamic"}, size \in 1..MaxCountSize :
      /\ size % 8 # 0
      /\ variant = kind
      /\ m_block_size = 8
      /\ Holds(filled(size, FALSE))
      /\ other = NoSnap
      /\ result = [value |-> 0, prev |-> ""]
      /\ last = Call(IF kind = "fixed" THEN "bitset" ELSE "dynamic_bitset",
                     size, 1, FALSE, {})

\* result = count()
CallCount ==
    /\ Running
    /\ calls < MaxIdemCalls
    /\ Idem(Outcome(m_size, m_storage_size, m_partial_size, m_data, {}),
            "count", count(Snap))

CountNext ==
    \/ SetBit
    \/ SetAll
    \/ ClearAll
    \/ Flip
    \/ CallCount

SpecCount == CountInit /\ [][CountNext]_vars

\* C29: after any sequence of public mutating operations on a bitset whose
\* size is not a multiple of W (including set(), fill(true), flip(), block
\* writes and range operations), count() equals the number of indices
\* i < size() with test(i) true, hence count() <= size(): padding bits never
\* contribute to the count.
C29_CountIgnoresPadding ==
    last.op = "count" =>
        /\ result.value = Cardinality({ i \in 0..(m_size - 1) : Bit(Snap, i) })
        /\ result.value <= m_size

----------------------------------------------------------------------------
\* The value-returning bitwise operators of dynamic_bitset: a & b, a | b,
\* a ^ b, a - b and ~a.  The member variables are those of a, other holds b,
\* result holds the returned object.

ValueOperators == {"operator&", "operator|", "operator^", "operator-", "operator~"}

\* the block an operator stores: x is the block of *this, y that of other
block_op(name, x, y) ==
    CASE name = "operator&" -> x \cap y
      [] name = "operator|" -> x \cup y
      [] name = "operator^" -> (x \ y) \cup (y \ x)
      [] name = "operator-" -> x \ y
      [] name = "operator~" -> AllSet \ x

\* the returned object: "dynamic_bitset result;", then one store into
\* result.m_data[i] for every i below result.m_storage_size (operator~:
\* below m_storage_size of *this)
value_operator(s, o, name) ==
    LET r == dynamic_bitset_empty
        n == IF name = "operator~" THEN s.storage ELSE r.storage
    IN  IF n = 0 THEN r
        ELSE IF r.data.null THEN [r EXCEPT !.ub = {"null_deref"}]
        ELSE Outcome(r.size, r.storage, r.partial,
                     Ptr([k \in 1..Len(r.data.arr) |->
                            IF k <= n
                            THEN block_op(name, s.data.arr[k],
                                          IF name = "operator~" THEN {}
                                          ELSE o.data.arr[k])
                            ELSE r.data.arr[k]]),
                     IF n > Len(r.data.arr) THEN {"oob_write"} ELSE {})

\* largest bit count of the operands
MaxOpSize == 17

\* two dynamic_bitset<uint8_t> of equal size n >= 1
OpInit ==
    \E size \in 1..MaxOpSize, u \in BOOLEAN, v \in BOOLEAN :
    \E d \in EqFlips(size, 8), e \in EqFlips(size, 8) :
      /\ variant = "dynamic"
      /\ m_block_size = 8
      /\ Holds(with_bits(size, FALSE, EqFlipped(size, u, d)))
      /\ LET o == with_bits(size, FALSE, EqFlipped(size, v, e))
         IN  other = [size |-> o.size, storage |-> o.storage,
                      partial |-> o.partial, data |-> o.data]
      /\ result = dynamic_bitset_empty
      /\ last = Call("dynamic_bitset", size, size, u, {})

\* result = the value of the operator name applied to *this (and other)
Operates(name) ==
    /\ result' = value_operator(Snap, other, name)
    /\ ub' = result'.ub
    /\ last' = Call(name, 0, 0, FALSE, {})
    /\ calls' = calls + 1
    /\ UNCHANGED <<variant, m_block_size, m_size, m_storage_size,
                   m_partial_size, m_data, other>>

And ==
    /\ calls = 0
    /\ Operates("operator&")

Or ==
    /\ calls = 0
    /\ Operates("operator|")

Xor ==
    /\ calls = 0
    /\ Operates("operator^")

Minus ==
    /\ calls = 0
    /\ Operates("operator-")

Not ==
    /\ calls = 0
    /\ Operates("operator~")

OpNext ==
    \/ And
    \/ Or
    \/ Xor
    \/ Minus
    \/ Not

SpecOp == OpInit /\ [][OpNext]_vars

\* the bit an operator has to yield from the operand bits x and y
BitOf(name, x, y) ==
    CASE name = "operator&" -> x /\ y
      [] name = "operator|" -> x \/ y
      [] name = "operator^" -> x # y
      [] name = "operator-" -> x /\ ~y
      [] name = "operator~" -> ~x

\* C30: for two dynamic_bitsets a and b of equal size n >= 1, the
\* value-returning operators a & b, a | b, a ^ b, a - b and ~a return a
\* dynamic_bitset of size n whose bit i is, for every i < n, the AND, OR,
\* XOR, AND-NOT and NOT of the operand bits, without accessing unallocated
\* storage.
C30_ValueOperators ==
    last.op \in ValueOperators =>
        /\ ub = {}
        /\ result.size = m_size
        /\ \A i \in 0..(m_size - 1) :
             Bit(result, i) = BitOf(last.op, Bit(Snap, i), Bit(other, i))

====
